---------------------------- MODULE Spec2Model ----------------------------
(***************************************************************************)
(* A model of models/flux/modules/layers.py: the sinusoidal timestep       *)
(* embedding, QKNorm, the chunked MLP helper split_mlp and the forward     *)
(* calls of DoubleStreamBlock, SingleStreamBlock and LastLayer.            *)
(*                                                                         *)
(* Tensors are sequences of rows, flattened batch-major ([B, S, C] is a    *)
(* sequence of B*S rows).  A row is a term: the input row it started as    *)
(* and the row-wise operations applied to it since, e.g.                   *)
(* <<"lin", "img_mlp.2", <<"gelu", <<"lin", "img_mlp.0", r>>>>>>.  Two     *)
(* rows are equal exactly when the same operations were applied to the     *)
(* same inputs in the same order.  The row operand of an operation is      *)
(* always the last component of its term.                                  *)
(***************************************************************************)
EXTENDS Integers, Sequences, FiniteSets, TLC

VARIABLES
    pc,       \* position of the call in progress
    inp,      \* the arguments of the call, as passed by the caller
    attrs,    \* the sub-module attributes the block instance has
    heap,     \* tensor storages: name -> [rows, shape, owner]
    bind,     \* local variable name -> storage it refers to
    inplace,  \* the in-place operations executed so far: <<op, storage, owner>>
    chunks,   \* the row ranges <<lo, hi>> torch.split produced
    ci,       \* index of the next chunk of the loop
    ret       \* what the call returned (or raised)

vars == <<pc, inp, attrs, heap, bind, inplace, chunks, ci, ret>>

----------------------------------------------------------------------------
(* Bounds of the model *)

MaxN == 2        \* timesteps per timestep_embedding call
MaxT == 2        \* timestep values are 0..MaxT
MaxDim == 5      \* output dimensions 1..MaxDim
MaxVal == 1      \* QKNorm harness: tensor contents 0..MaxVal

Min(a, b) == IF a < b THEN a ELSE b

----------------------------------------------------------------------------
(* timestep_embedding *)

time_factor == 1000

\* One entry of the embedding: cos or sin of t * freqs[j], or a padded zero.
\* freqs[j] = exp(-log(max_period) * j / half) is strictly positive.
TrigEntry(fn, tn, j) == [fn |-> fn, t |-> time_factor * tn, j |-> j]

ZeroEntry == [fn |-> "zero", t |-> 0, j |-> 0]

\* cos(a) is never exactly 0 for a float a; sin(a) is 0 only at a = 0.
IsZeroEntry(e) == e.fn = "zero" \/ (e.fn = "sin" /\ e.t = 0)

\* The two halves in the other order: [sin(args), cos(args)]
SinCosRow(tn, half) ==
    [j \in 1..(2 * half) |->
        IF j <= half THEN TrigEntry("sin", tn, j - 1)
                     ELSE TrigEntry("cos", tn, j - 1 - half)]

\* torch.cat([cos(args), sin(args)], dim=-1) for one row; args has `half` columns
CosSinRow(tn, half) ==
    [j \in 1..(2 * half) |->
        IF j <= half THEN TrigEntry("cos", tn, j - 1)
                     ELSE TrigEntry("sin", tn, j - 1 - half)]

\* torch.zeros_like(embedding[:, :1]) for one row: the slice keeps at most one
\* column, and none when the row is empty
ZerosLikeFirstColumn(row) == [j \in 1..Min(1, Len(row)) |-> ZeroEntry]

timestep_embedding(t, dim) ==
    LET half == dim \div 2
    IN  [n \in 1..Len(t) |->
            LET embedding == CosSinRow(t[n], half)
            IN  IF dim % 2 = 1
                THEN embedding \o ZerosLikeFirstColumn(embedding)
                ELSE embedding]

----------------------------------------------------------------------------
(* Tensors as values (QKNorm harness) *)

DTypes == {"bf16", "f32"}

None == [raised |-> "", isNone |-> TRUE, dtype |-> "", rows |-> <<>>]

Tensor(dtype, rows) == [raised |-> "", isNone |-> FALSE, dtype |-> dtype, rows |-> rows]

Raised(exc) == [raised |-> exc, isNone |-> FALSE, dtype |-> "", rows |-> <<>>]

\* torch type promotion of a tensor with a float32 parameter
PromoteWithF32(dtype) == "f32"

\* RMSNorm.forward of the instance `name` (its scale parameter is float32):
\* None has no .dtype
RMSNorm_forward(name, x) ==
    IF x.raised # "" THEN x
    ELSE IF x.isNone THEN Raised("AttributeError")
    ELSE Tensor(PromoteWithF32(x.dtype),
                [i \in 1..Len(x.rows) |-> <<"rms", name, x.rows[i]>>])

\* x.to(v): the dtype of v; the same tensor when it already has it
To(x, v) ==
    IF x.raised # "" THEN x
    ELSE IF x.dtype = v.dtype THEN x
    ELSE Tensor(v.dtype, [i \in 1..Len(x.rows) |-> <<"to", v.dtype, x.rows[i]>>])

\* `k != None`: a Tensor compared with None is a plain Python bool, True
NeNone(k) == ~k.isNone

\* A query path that normalizes with the key's RMSNorm instance
QueryPathNormSwapped == "key_norm"

QueryPathNorm == "query_norm"

KeyPathNorm == "key_norm"

QKNorm_forward(q, k, v) ==
    IF NeNone(k)
    THEN To(RMSNorm_forward(KeyPathNorm, k), v)
    ELSE To(RMSNorm_forward(QueryPathNorm, q), v)

----------------------------------------------------------------------------
(* Rows as terms.  b and s are 0-based, as in the source. *)

InRow(name, b, s) == <<"in", name, b, s>>

LayerNorm(row) == <<"ln", row>>

Linear(name, row) == <<"lin", name, row>>

GELU(row) == <<"gelu", row>>

SiLU(row) == <<"silu", row>>

\* the k-th piece of t.chunk(n, dim=-1)
ChunkOf(k, row) == <<"chunk", k, row>>

OnePlus(m) == <<"1+", m>>

MulRow(m, row) == <<"mul", m, row>>

AddRow(m, row) == <<"add", m, row>>

\* row + t * g
AddCMulRow(t, g, row) == <<"addcmul", t, g, row>>

\* torch.cat((a, b), -1) of two rows
CatCols(a, b) == <<"cat", a, b>>

\* row p of batch b of the attention output, computed from query row q (and
\* from every key and value row of the batch, and pe)
AttnRow(b, p, q) == <<"attn", b, p, q>>

\* The 3-stage MLP (nn.Sequential of Linear, GELU, Linear) on one row
Mlp3(mlp, row) == Linear(<<mlp, 2>>, GELU(Linear(<<mlp, 0>>, row)))

----------------------------------------------------------------------------
(* The heap of tensor storages *)

Entry(rows, B, S, owner) == [rows |-> rows, B |-> B, S |-> S, owner |-> owner]

\* A tensor written to storage `name`: a storage that exists keeps its owner,
\* a new one belongs to the call
Store(h, name, rows, B, S) ==
    LET e == Entry(rows, B, S, IF name \in DOMAIN h THEN h[name].owner ELSE "local")
    IN  [s \in DOMAIN h \cup {name} |-> IF s = name THEN e ELSE h[s]]

\* del of the last reference to a tensor the call created
Free(h, names) ==
    [s \in {n \in DOMAIN h : ~(n \in names /\ h[n].owner = "local")} |-> h[s]]

Bind(bnd, name, val) ==
    [n \in DOMAIN bnd \cup {name} |-> IF n = name THEN val ELSE bnd[n]]

Unbind(bnd, names) == [n \in DOMAIN bnd \ names |-> bnd[n]]

\* an entry of the log of in-place operations: the operation, the storage it
\* wrote and whose tensor that is
Log(op, st, h) == <<op, st, h[st].owner>>

RowsOf(B, S, F(_, _)) == [r \in 1..(B * S) |-> F((r - 1) \div S, (r - 1) % S)]

\* an in-place row-wise operation on storage st; F gets the batch index and the row
MapInPlace(h, st, F(_, _)) ==
    [h EXCEPT ![st].rows =
        [r \in 1..Len(h[st].rows) |-> F((r - 1) \div h[st].S, h[st].rows[r])]]

\* t[:, lo:hi] of a [B, S, C] tensor, as rows
Slice(h, st, lo, hi) ==
    RowsOf(h[st].B, hi - lo, LAMBDA b, s : h[st].rows[b * h[st].S + lo + s + 1])

Shape(h, st) == <<h[st].B, h[st].S>>

ActDType == "bf16"

----------------------------------------------------------------------------
(* Values the other specifications leave alone *)

NoHeap == <<>>

IdleBlock ==
    /\ attrs = {}
    /\ heap = NoHeap
    /\ bind = <<>>
    /\ inplace = {}
    /\ chunks = <<>>
    /\ ci = 0

----------------------------------------------------------------------------
(* Specification SpecTime: calls of timestep_embedding *)

SeqsUpTo(S, n) == UNION {[1..m -> S] : m \in 1..n}

TimeInit ==
    /\ pc = "call"
    /\ inp \in [t : SeqsUpTo(0..MaxT, MaxN), dim : 1..MaxDim]
    /\ ret = <<>>
    /\ IdleBlock

TimeCall ==
    /\ pc = "call"
    /\ ret' = timestep_embedding(inp.t, inp.dim)
    /\ pc' = "returned"
    /\ UNCHANGED <<inp, attrs, heap, bind, inplace, chunks, ci>>

TimeNext == TimeCall

SpecTime == TimeInit /\ [][TimeNext]_vars

----------------------------------------------------------------------------
(* Specification SpecQK: calls of QKNorm.forward *)

QKTensors == {Tensor(d, <<<<"in", "t", x>>>>) : d \in DTypes, x \in 0..MaxVal}

QKInit ==
    /\ pc = "call"
    /\ inp \in [q : QKTensors, k : QKTensors, v : QKTensors]
    /\ ret = <<>>
    /\ IdleBlock

\* A call passes the query tensor or None, and the key tensor or None
QKCall(passq, passk) ==
    /\ pc = "call"
    /\ LET qarg == IF passq THEN inp.q ELSE None
           karg == IF passk THEN inp.k ELSE None
           out == QKNorm_forward(qarg, karg, inp.v)
       IN  /\ ret' = [q |-> qarg, k |-> karg, out |-> out]
           /\ pc' = IF out.raised # "" THEN "raised" ELSE "returned"
    /\ UNCHANGED <<inp, attrs, heap, bind, inplace, chunks, ci>>

QKNext == \E passq \in BOOLEAN, passk \in BOOLEAN : QKCall(passq, passk)

SpecQK == QKInit /\ [][QKNext]_vars

----------------------------------------------------------------------------
(* Pieces of the block forward calls *)

MaxB == 2        \* batch sizes 1..MaxB
MaxTxt == 2      \* text lengths 1..MaxTxt
MaxSeq == 17     \* image / single-stream / split_mlp lengths 1..MaxSeq
MaxDivide == 4   \* split_mlp harness: divide in 1..MaxDivide

\* Modulation.forward with the SiLU applied to vec in place
Modulation_forward_silu_inplace(h, lin, out) ==
    LET silu == [b \in 1..h["vec"].B |-> SiLU(h["vec"].rows[b])]
        h1 == [h EXCEPT !["vec"].rows = silu]
    IN  Store(h1, out, [b \in 1..h["vec"].B |-> Linear(lin, silu[b])], h["vec"].B, 1)

\* Modulation.forward: self.lin(silu(vec))[:, None, :]; the ModulationOut
\* fields are the chunks 0..multiplier-1 of this one tensor
Modulation_forward(h, lin, out) ==
    Store(h, out, [b \in 1..h["vec"].B |-> Linear(lin, SiLU(h["vec"].rows[b]))],
          h["vec"].B, 1)

\* field k of the modulation tensor `mod` for batch b: 0, 1, 2 are shift,
\* scale, gate of the first ModulationOut and 3, 4, 5 those of the second
ModChunk(h, mod, k, b) == ChunkOf(k, h[mod].rows[b + 1])

\* a normalization that writes its result over its input
LayerNormOverInput(fresh, input) == input

\* nn.LayerNorm returns a new tensor: the storage its result lives in
LayerNormOut(fresh, input) == fresh

\* st = norm(src); st.mul_(1 + scale); st.add_(shift)
NormModulate(h, st, src, mod, kshift, kscale) ==
    LET h1 == Store(h, st, [r \in 1..Len(h[src].rows) |-> LayerNorm(h[src].rows[r])],
                    h[src].B, h[src].S)
        h2 == MapInPlace(h1, st, LAMBDA b, row : MulRow(OnePlus(ModChunk(h, mod, kscale, b)), row))
    IN  MapInPlace(h2, st, LAMBDA b, row : AddRow(ModChunk(h, mod, kshift, b), row))

\* lin(t) for a linear layer `lin`, as rows
Project(lin, rows) == [r \in 1..Len(rows) |-> Linear(lin, rows[r])]

\* self.norm(q, None, v) and self.norm(None, k, v) on the rows of a block
NormQuery(q, v) == QKNorm_forward(Tensor(ActDType, q), None, Tensor(ActDType, v)).rows

NormKey(k, v) == QKNorm_forward(None, Tensor(ActDType, k), Tensor(ActDType, v)).rows

\* the joint sequence with the image rows first
CatImgFirst(B, txt, T, img, I) ==
    RowsOf(B, T + I, LAMBDA b, s : IF s < I THEN img[b * I + s + 1]
                                   ELSE txt[b * T + (s - I) + 1])

\* torch.cat((txt, img), dim=2): per batch, the T text rows and then the I
\* image rows
CatTxtImg(B, txt, T, img, I) ==
    RowsOf(B, T + I, LAMBDA b, s : IF s < T THEN txt[b * T + s + 1]
                                   ELSE img[b * I + (s - T) + 1])

\* attention(qkv_list, pe=pe): [B, S, hidden], row p of batch b computed from
\* query row p; reads q, k, v and pe and writes none of them
attention(h) ==
    Store(h, "attn",
          RowsOf(h["q"].B, h["q"].S, LAMBDA b, p : AttnRow(b, p, h["q"].rows[b * h["q"].S + p + 1])),
          h["q"].B, h["q"].S)

\* t.addcmul_(upd, gate) on storage st, gate being field k of `mod`
AddCMulInPlace(h, st, upd, mod, k) ==
    [h EXCEPT ![st].rows =
        [r \in 1..Len(h[st].rows) |->
            AddCMulRow(upd[r], ModChunk(h, mod, k, (r - 1) \div h[st].S), h[st].rows[r])]]

\* torch.split(x, chunk_size) of n rows: the row ranges of the chunks
TorchSplit(n, chunk_size) ==
    [i \in 1..((n + chunk_size - 1) \div chunk_size) |->
        <<(i - 1) * chunk_size + 1, Min(i * chunk_size, n)>>]

\* rows lo..hi of storage st replaced by F of the old row and its index
WriteRows(h, st, lo, hi, F(_, _)) ==
    [h EXCEPT ![st].rows =
        [r \in 1..Len(h[st].rows) |->
            IF lo <= r /\ r <= hi THEN F(r, h[st].rows[r]) ELSE h[st].rows[r]]]

Raise(exc) == [raised |-> exc, shapes |-> <<>>]

Return(shapes) == [raised |-> "", shapes |-> shapes]

----------------------------------------------------------------------------
(* split_mlp(mlp, x, divide): bind.x is the storage of x, bind.mlp the MLP and *)
(* bind.divide the chunk count                                                *)

split_mlp_default_divide == 8

\* chunk_size = int(x_shape[1] / divide): the second assignment is the one
\* that counts, and x_shape[1] is the sequence length
split_mlp_chunk_size(h, st, divide) == h[st].S \div divide

\* x.view(-1, C); chunk_size; torch.split(x, chunk_size), which refuses a
\* split size of 0 for a tensor that has rows
SM_Split ==
    /\ pc = "sm_split"
    /\ LET chunk_size == split_mlp_chunk_size(heap, bind.x, bind.divide)
       IN  IF chunk_size = 0
           THEN /\ pc' = "raised"
                /\ ret' = Raise("RuntimeError")
                /\ UNCHANGED <<chunks, ci>>
           ELSE /\ chunks' = TorchSplit(Len(heap[bind.x].rows), chunk_size)
                /\ ci' = 1
                /\ pc' = "sm_loop"
                /\ UNCHANGED ret
    /\ UNCHANGED <<inp, attrs, heap, bind, inplace>>

\* one iteration: x_chunk[...] = mlp[2](mlp[1](mlp[0](x_chunk)))
SM_Chunk ==
    /\ pc = "sm_loop"
    /\ ci <= Len(chunks)
    /\ heap' = WriteRows(heap, bind.x, chunks[ci][1], chunks[ci][2],
                         LAMBDA r, row : Mlp3(bind.mlp, row))
    /\ inplace' = inplace \cup {Log("setitem", bind.x, heap')}
    /\ ci' = ci + 1
    /\ UNCHANGED <<pc, inp, attrs, bind, chunks, ret>>

\* return x.reshape(x_shape): to the harness, or to DoubleStreamBlock.forward
\* (mod_img = split_mlp(self.img_mlp, mod_img))
SM_Return ==
    /\ pc = "sm_loop"
    /\ ci > Len(chunks)
    /\ IF inp.fn = "split_mlp"
       THEN /\ pc' = "returned"
            /\ ret' = Return(<<Shape(heap, bind.x)>>)
            /\ UNCHANGED bind
       ELSE /\ pc' = "d_img_mlp_res"
            /\ bind' = Bind(Unbind(bind, {"x", "mlp", "divide"}), "mod_img", bind.x)
            /\ UNCHANGED ret
    /\ UNCHANGED <<inp, attrs, heap, inplace, chunks, ci>>

----------------------------------------------------------------------------
(* Specification SpecSplit: calls of split_mlp on a caller's tensor *)

SplitInit ==
    /\ pc = "sm_split"
    /\ inp \in [fn : {"split_mlp"}, B : 1..MaxB, T : {0}, S : 1..MaxSeq,
                divide : 1..MaxDivide]
    /\ attrs = {}
    /\ heap = [s \in {"x"} |->
                 Entry(RowsOf(inp.B, inp.S, LAMBDA b, q : InRow("x", b, q)),
                       inp.B, inp.S, "caller")]
    /\ bind = [x |-> "x", mlp |-> "mlp", divide |-> inp.divide]
    /\ inplace = {}
    /\ chunks = <<>>
    /\ ci = 0
    /\ ret = <<>>

SplitNext == SM_Split \/ SM_Chunk \/ SM_Return

SpecSplit == SplitInit /\ [][SplitNext]_vars

----------------------------------------------------------------------------
(* The sub-module attributes of a block *)

\* what the constructors create: SelfAttention has qkv, norm and proj,
\* SingleStreamBlock has linear1, linear2 and norm
ConstructedAttrs(fn) ==
    CASE fn = "double" -> {"img_attn.qkv", "img_attn.norm", "img_attn.proj",
                           "txt_attn.qkv", "txt_attn.norm", "txt_attn.proj"}
      [] fn = "single" -> {"linear1", "linear2", "norm"}
      [] OTHER -> {"linear"}

\* get_linear_split_map: the sub-projections each fused linear layer is split into
split_linear_modules_map ==
    [m \in {"img_attn.qkv", "txt_attn.qkv", "linear1"} |->
        CASE m = "img_attn.qkv" -> {"img_attn.q", "img_attn.k", "img_attn.v"}
          [] m = "txt_attn.qkv" -> {"txt_attn.q", "txt_attn.k", "txt_attn.v"}
          [] OTHER -> {"linear1_attn_q", "linear1_attn_k", "linear1_attn_v", "linear1_mlp"}]

\* the model loader splits the fused layers of a constructed block by the map
SplitLinear ==
    /\ pc = "call"
    /\ attrs \cap DOMAIN split_linear_modules_map # {}
    /\ attrs' = (attrs \ DOMAIN split_linear_modules_map)
                \cup UNION {split_linear_modules_map[m] :
                                m \in attrs \cap DOMAIN split_linear_modules_map}
    /\ UNCHANGED <<pc, inp, heap, bind, inplace, chunks, ci, ret>>

\* the tensors of the caller (and the parameters) that outlive the call
Surviving(h) == [s \in {n \in DOMAIN h : h[n].owner # "local"} |-> h[s]]

----------------------------------------------------------------------------
(* DoubleStreamBlock.forward(img, txt, vec, pe) *)

\* img_mod1, img_mod2 = self.img_mod(vec); txt_mod1, txt_mod2 = self.txt_mod(vec)
DS_Modulation ==
    /\ pc = "call"
    /\ inp.fn = "double"
    /\ heap' = Modulation_forward(Modulation_forward(heap, "img_mod.lin", "img_mod"),
                                  "txt_mod.lin", "txt_mod")
    /\ pc' = "d_img_prep"
    /\ UNCHANGED <<inp, attrs, bind, inplace, chunks, ci, ret>>

\* img_modulated = self.img_norm1(img); .mul_(1 + img_mod1.scale); .add_(img_mod1.shift)
DS_ImgPrep ==
    /\ pc = "d_img_prep"
    /\ LET st == LayerNormOut("img_modulated", "img")
       IN  /\ heap' = NormModulate(heap, st, "img", "img_mod", 0, 1)
           /\ bind' = Bind(bind, "img_modulated", st)
           /\ inplace' = inplace \cup {Log("mul_", st, heap'), Log("add_", st, heap')}
    /\ pc' = "d_img_qkv"
    /\ UNCHANGED <<inp, attrs, chunks, ci, ret>>

\* img_q, img_k, img_v = self.img_attn.q / k / v (img_modulated); del
\* img_modulated; img_q and img_k normalized
DS_ImgQKV ==
    /\ pc = "d_img_qkv"
    /\ IF ~({"img_attn.q", "img_attn.k", "img_attn.v"} \subseteq attrs)
       THEN /\ pc' = "raised"
            /\ ret' = Raise("AttributeError")
            /\ UNCHANGED <<heap, bind>>
       ELSE LET m == heap[bind.img_modulated]
                v == Project("img_attn.v", m.rows)
                h1 == Store(heap, "img_q", NormQuery(Project("img_attn.q", m.rows), v), m.B, m.S)
                h2 == Store(h1, "img_k", NormKey(Project("img_attn.k", m.rows), v), m.B, m.S)
                h3 == Store(h2, "img_v", v, m.B, m.S)
            IN  /\ heap' = Free(h3, {bind.img_modulated})
                /\ bind' = Unbind(bind, {"img_modulated"})
                /\ pc' = "d_txt_prep"
                /\ UNCHANGED ret
    /\ UNCHANGED <<inp, attrs, inplace, chunks, ci>>

\* txt_modulated = self.txt_norm1(txt); .mul_(1 + txt_mod1.scale); .add_(txt_mod1.shift)
DS_TxtPrep ==
    /\ pc = "d_txt_prep"
    /\ LET st == LayerNormOut("txt_modulated", "txt")
       IN  /\ heap' = NormModulate(heap, st, "txt", "txt_mod", 0, 1)
           /\ bind' = Bind(bind, "txt_modulated", st)
           /\ inplace' = inplace \cup {Log("mul_", st, heap'), Log("add_", st, heap')}
    /\ pc' = "d_txt_qkv"
    /\ UNCHANGED <<inp, attrs, chunks, ci, ret>>

\* txt_q, txt_k, txt_v likewise
DS_TxtQKV ==
    /\ pc = "d_txt_qkv"
    /\ IF ~({"txt_attn.q", "txt_attn.k", "txt_attn.v"} \subseteq attrs)
       THEN /\ pc' = "raised"
            /\ ret' = Raise("AttributeError")
            /\ UNCHANGED <<heap, bind>>
       ELSE LET m == heap[bind.txt_modulated]
                v == Project("txt_attn.v", m.rows)
                h1 == Store(heap, "txt_q", NormQuery(Project("txt_attn.q", m.rows), v), m.B, m.S)
                h2 == Store(h1, "txt_k", NormKey(Project("txt_attn.k", m.rows), v), m.B, m.S)
                h3 == Store(h2, "txt_v", v, m.B, m.S)
            IN  /\ heap' = Free(h3, {bind.txt_modulated})
                /\ bind' = Unbind(bind, {"txt_modulated"})
                /\ pc' = "d_attention"
                /\ UNCHANGED ret
    /\ UNCHANGED <<inp, attrs, inplace, chunks, ci>>

\* q, k, v = torch.cat((txt_*, img_*), dim=2); attn = attention([q, k, v], pe=pe)
DS_Attention ==
    /\ pc = "d_attention"
    /\ LET B == heap["txt_q"].B
           T == heap["txt_q"].S
           I == heap["img_q"].S
           h1 == Store(heap, "q", CatTxtImg(B, heap["txt_q"].rows, T, heap["img_q"].rows, I), B, T + I)
           h2 == Store(h1, "k", CatTxtImg(B, heap["txt_k"].rows, T, heap["img_k"].rows, I), B, T + I)
           h3 == Store(h2, "v", CatTxtImg(B, heap["txt_v"].rows, T, heap["img_v"].rows, I), B, T + I)
       IN  heap' = attention(Free(h3, {"txt_q", "img_q", "txt_k", "img_k", "txt_v", "img_v"}))
    /\ pc' = "d_img_attn_res"
    /\ UNCHANGED <<inp, attrs, bind, inplace, chunks, ci, ret>>

\* the index the attention output is split at: txt.shape[1]
SplitPoint(h) == h["txt"].S

\* img_attn = attn[:, txt.shape[1]:]; img.addcmul_(self.img_attn.proj(img_attn), img_mod1.gate)
DS_ImgAttnRes ==
    /\ pc = "d_img_attn_res"
    /\ LET upd == Project("img_attn.proj", Slice(heap, "attn", SplitPoint(heap), heap["attn"].S))
       IN  IF Len(upd) # Len(heap["img"].rows)
           THEN /\ pc' = "raised"
                /\ ret' = Raise("RuntimeError")
                /\ UNCHANGED <<heap, inplace>>
           ELSE /\ heap' = AddCMulInPlace(heap, "img", upd, "img_mod", 2)
                /\ inplace' = inplace \cup {Log("addcmul_", "img", heap')}
                /\ pc' = "d_img_mlp_prep"
                /\ UNCHANGED ret
    /\ UNCHANGED <<inp, attrs, bind, chunks, ci>>

\* mod_img = self.img_norm2(img); .mul_(1 + img_mod2.scale); .add_(img_mod2.shift);
\* then the call split_mlp(self.img_mlp, mod_img)
DS_ImgMlpPrep ==
    /\ pc = "d_img_mlp_prep"
    /\ LET st == LayerNormOut("mod_img", "img")
       IN  /\ heap' = NormModulate(heap, st, "img", "img_mod", 3, 4)
           /\ bind' = Bind(Bind(Bind(bind, "x", st), "mlp", "img_mlp"),
                           "divide", split_mlp_default_divide)
           /\ inplace' = inplace \cup {Log("mul_", st, heap'), Log("add_", st, heap')}
    /\ pc' = "sm_split"
    /\ UNCHANGED <<inp, attrs, chunks, ci, ret>>

\* img.addcmul_(mod_img, img_mod2.gate); mod_img = None
DS_ImgMlpRes ==
    /\ pc = "d_img_mlp_res"
    /\ heap' = Free(AddCMulInPlace(heap, "img", heap[bind.mod_img].rows, "img_mod", 5),
                    {bind.mod_img})
    /\ inplace' = inplace \cup {Log("addcmul_", "img", heap')}
    /\ bind' = Unbind(bind, {"mod_img"})
    /\ pc' = "d_txt_res"
    /\ UNCHANGED <<inp, attrs, chunks, ci, ret>>

\* txt_attn = attn[:, :txt.shape[1]]; txt.addcmul_(self.txt_attn.proj(txt_attn),
\* txt_mod1.gate); txt.addcmul_(self.txt_mlp((1 + txt_mod2.scale) *
\* self.txt_norm2(txt) + txt_mod2.shift), txt_mod2.gate); return img, txt
DS_TxtRes ==
    /\ pc = "d_txt_res"
    /\ LET upd == Project("txt_attn.proj", Slice(heap, "attn", 0, SplitPoint(heap)))
       IN  IF Len(upd) # Len(heap["txt"].rows)
           THEN /\ pc' = "raised"
                /\ ret' = Raise("RuntimeError")
                /\ UNCHANGED <<heap, inplace>>
           ELSE LET h1 == AddCMulInPlace(heap, "txt", upd, "txt_mod", 2)
                    mlp_in == [r \in 1..Len(h1["txt"].rows) |->
                                 AddRow(ModChunk(h1, "txt_mod", 3, (r - 1) \div h1["txt"].S),
                                        MulRow(OnePlus(ModChunk(h1, "txt_mod", 4, (r - 1) \div h1["txt"].S)),
                                               LayerNorm(h1["txt"].rows[r])))]
                    h2 == AddCMulInPlace(h1, "txt",
                                         [r \in 1..Len(mlp_in) |-> Mlp3("txt_mlp", mlp_in[r])],
                                         "txt_mod", 5)
                IN  /\ heap' = Surviving(h2)
                    /\ inplace' = inplace \cup {Log("addcmul_", "txt", heap')}
                    /\ ret' = Return(<<Shape(h2, "img"), Shape(h2, "txt")>>)
                    /\ pc' = "returned"
    /\ UNCHANGED <<inp, attrs, bind, chunks, ci>>

----------------------------------------------------------------------------
(* SingleStreamBlock.forward(x, vec, pe) *)

single_stream_divide == 6

\* mod, _ = self.modulation(vec); x_mod = self.pre_norm(x); .mul_(1 + mod.scale);
\* .add_(mod.shift)
SS_Prep ==
    /\ pc = "call"
    /\ inp.fn = "single"
    /\ LET st == LayerNormOut("x_mod", "x")
           h1 == Modulation_forward(heap, "modulation.lin", "mod")
       IN  /\ heap' = NormModulate(h1, st, "x", "mod", 0, 1)
           /\ bind' = Bind(bind, "x_mod", st)
           /\ inplace' = inplace \cup {Log("mul_", st, heap'), Log("add_", st, heap')}
    /\ pc' = "s_qkv"
    /\ UNCHANGED <<inp, attrs, chunks, ci, ret>>

\* q, k, v = self.linear1_attn_q / k / v (x_mod); q and k normalized
SS_QKV ==
    /\ pc = "s_qkv"
    /\ IF ~({"linear1_attn_q", "linear1_attn_k", "linear1_attn_v"} \subseteq attrs)
       THEN /\ pc' = "raised"
            /\ ret' = Raise("AttributeError")
            /\ UNCHANGED heap
       ELSE LET m == heap[bind.x_mod]
                v == Project("linear1_attn_v", m.rows)
                h1 == Store(heap, "q", NormQuery(Project("linear1_attn_q", m.rows), v), m.B, m.S)
                h2 == Store(h1, "k", NormKey(Project("linear1_attn_k", m.rows), v), m.B, m.S)
            IN  /\ heap' = Store(h2, "v", v, m.B, m.S)
                /\ pc' = "s_attention"
                /\ UNCHANGED ret
    /\ UNCHANGED <<inp, attrs, bind, inplace, chunks, ci>>

\* attn = attention([q, k, v], pe=pe)
SS_Attention ==
    /\ pc = "s_attention"
    /\ heap' = attention(heap)
    /\ pc' = "s_split"
    /\ UNCHANGED <<inp, attrs, bind, inplace, chunks, ci, ret>>

\* zip(x_chunks, attn_chunks): pairs, as many as the shorter list has
Zip(a, b) == [i \in 1..Min(Len(a), Len(b)) |-> <<a[i], b[i]>>]

\* chunk_size = int(x_mod_shape[1] / 6)
single_chunk_size(h, st) == h[st].S \div single_stream_divide

\* x_mod.view(-1, C); x_chunks = torch.split(x_mod, chunk_size); attn.view(-1, C);
\* attn_chunks = torch.split(attn, chunk_size)
SS_Split ==
    /\ pc = "s_split"
    /\ LET chunk_size == single_chunk_size(heap, bind.x_mod)
       IN  IF chunk_size = 0
           THEN /\ pc' = "raised"
                /\ ret' = Raise("RuntimeError")
                /\ UNCHANGED <<chunks, ci>>
           ELSE /\ chunks' = Zip(TorchSplit(Len(heap[bind.x_mod].rows), chunk_size),
                                 TorchSplit(Len(heap["attn"].rows), chunk_size))
                /\ ci' = 1
                /\ pc' = "s_loop"
                /\ UNCHANGED ret
    /\ UNCHANGED <<inp, attrs, heap, bind, inplace>>

\* one iteration: x_chunk[...] = self.linear2(torch.cat((attn_chunk,
\* self.mlp_act(self.linear1_mlp(x_chunk))), -1))
SS_Chunk ==
    /\ pc = "s_loop"
    /\ ci <= Len(chunks)
    /\ LET xr == chunks[ci][1]
           ar == chunks[ci][2]
       IN  IF xr[2] - xr[1] # ar[2] - ar[1]
           THEN /\ pc' = "raised"
                /\ ret' = Raise("RuntimeError")
                /\ UNCHANGED <<heap, inplace, ci>>
           ELSE /\ heap' = WriteRows(heap, bind.x_mod, xr[1], xr[2],
                             LAMBDA r, row :
                                Linear("linear2",
                                       CatCols(heap["attn"].rows[ar[1] + (r - xr[1])],
                                               GELU(Linear("linear1_mlp", row)))))
                /\ inplace' = inplace \cup {Log("setitem", bind.x_mod, heap')}
                /\ ci' = ci + 1
                /\ UNCHANGED <<pc, ret>>
    /\ UNCHANGED <<inp, attrs, bind, chunks>>

\* x_mod = x_mod.view(x_mod_shape); x.addcmul_(x_mod, mod.gate); return x
SS_Return ==
    /\ pc = "s_loop"
    /\ ci > Len(chunks)
    /\ LET h1 == AddCMulInPlace(heap, "x", heap[bind.x_mod].rows, "mod", 2)
       IN  /\ heap' = Surviving(h1)
           /\ ret' = Return(<<Shape(h1, "x")>>)
    /\ inplace' = inplace \cup {Log("addcmul_", "x", heap')}
    /\ pc' = "returned"
    /\ UNCHANGED <<inp, attrs, bind, chunks, ci>>

----------------------------------------------------------------------------
(* LastLayer.forward(x, vec) *)

\* shift, scale = self.adaLN_modulation(vec).chunk(2, dim=1); x = self.linear(
\* (1 + scale[:, None, :]) * self.norm_final(x) + shift[:, None, :]); return x
LL_Forward ==
    /\ pc = "call"
    /\ inp.fn = "last"
    /\ LET x == heap["x"]
           ada == [b \in 1..x.B |-> Linear("adaLN_modulation.1", SiLU(heap["vec"].rows[b]))]
           out == [r \in 1..Len(x.rows) |->
                     Linear("linear",
                            AddRow(ChunkOf(0, ada[(r - 1) \div x.S + 1]),
                                   MulRow(OnePlus(ChunkOf(1, ada[(r - 1) \div x.S + 1])),
                                          LayerNorm(x.rows[r]))))]
           h1 == Store(heap, "out", out, x.B, x.S)
       IN  /\ heap' = h1
           /\ ret' = Return(<<Shape(h1, "out")>>)
    /\ pc' = "returned"
    /\ UNCHANGED <<inp, attrs, bind, inplace, chunks, ci>>

----------------------------------------------------------------------------
(* Specification Spec: one forward call of a block on the caller's tensors *)

CallerTensor(name, B, S) ==
    Entry(RowsOf(B, S, LAMBDA b, s : InRow(name, b, s)), B, S, "caller")

Parameters == Entry(<<<<"in", "parameters", 0, 0>>>>, 1, 1, "parameter")

InitialHeap(c) ==
    IF c.fn = "double"
    THEN [s \in {"img", "txt", "vec", "pe", "parameters"} |->
            CASE s = "img" -> CallerTensor("img", c.B, c.S)
              [] s = "txt" -> CallerTensor("txt", c.B, c.T)
              [] s = "vec" -> CallerTensor("vec", c.B, 1)
              [] s = "pe" -> CallerTensor("pe", 1, 1)
              [] OTHER -> Parameters]
    ELSE [s \in {"x", "vec", "pe", "parameters"} |->
            CASE s = "x" -> CallerTensor("x", c.B, c.S)
              [] s = "vec" -> CallerTensor("vec", c.B, 1)
              [] s = "pe" -> CallerTensor("pe", 1, 1)
              [] OTHER -> Parameters]

Calls ==
    [fn : {"double"}, B : 1..MaxB, T : 1..MaxTxt, S : 1..MaxSeq,
     divide : {split_mlp_default_divide}]
    \cup [fn : {"single", "last"}, B : 1..MaxB, T : {0}, S : 1..MaxSeq,
          divide : {split_mlp_default_divide}]

Init ==
    /\ pc = "call"
    /\ inp \in Calls
    /\ attrs = ConstructedAttrs(inp.fn)
    /\ heap = InitialHeap(inp)
    /\ bind = <<>>
    /\ inplace = {}
    /\ chunks = <<>>
    /\ ci = 0
    /\ ret = <<>>

Next ==
    \/ SplitLinear
    \/ DS_Modulation \/ DS_ImgPrep \/ DS_ImgQKV \/ DS_TxtPrep \/ DS_TxtQKV
    \/ DS_Attention \/ DS_ImgAttnRes \/ DS_ImgMlpPrep
    \/ SM_Split \/ SM_Chunk \/ SM_Return
    \/ DS_ImgMlpRes \/ DS_TxtRes
    \/ SS_Prep \/ SS_QKV \/ SS_Attention \/ SS_Split \/ SS_Chunk \/ SS_Return
    \/ LL_Forward

Spec == Init /\ [][Next]_vars

----------------------------------------------------------------------------
(* Specification SpecZero: DoubleStreamBlock.forward on numbers.               *)
(* Every row of a stream is the same and every channel of a row is the same    *)
(* (the inputs are constant tensors and the parameters are drawn uniform over  *)
(* their channels), so one integer stands for a whole tensor.                  *)

MaxGate == 1     \* gate biases of the modulation layers are 0..MaxGate
MaxBias == 1     \* the other biases are 0..MaxBias
MaxW == 2        \* weights are 1..MaxW

\* nn.Linear
NumLinear(w, b, x) == w * x + b

\* SiLU and tanh-GELU, rounded to the nearest integer: 0 at 0 and below, x above
NumAct(x) == IF x > 0 THEN x ELSE 0

\* nn.LayerNorm without affine parameters: (x - mean) / sqrt(var + eps), and the
\* mean over equal channels is x itself
NumLayerNorm(x) == x - x

\* Modulation.forward: the six pieces (shift, scale, gate, shift, scale, gate) of
\* lin(silu(vec)), by 0-based index
NumModulation(w, bias, vec) == [k \in 0..5 |-> NumLinear(w, bias[k + 1], NumAct(vec))]

\* norm(x) * (1 + scale) + shift
NumModulate(x, shift, scale) == NumLayerNorm(x) * (1 + scale) + shift

\* a residual add that drops the gate
NumAddUngated(x, t, g) == x + t

\* x.addcmul_(t, g)
NumAddCMul(x, t, g) == x + t * g

\* the 3-stage MLP
NumMlp(w, b, x) == NumLinear(w, b, NumAct(NumLinear(w, b, x)))

\* the six biases of a modulation layer
ModBias(shift, gate1, gate2) == <<shift, shift, gate1, shift, shift, gate2>>

\* the value rows of the two streams: v = self.*_attn.v(modulated), no bias
NumValues(c) ==
    LET img_mod == NumModulation(c.w, ModBias(c.img_shift, c.img_gate1, c.img_gate2), c.vec)
        txt_mod == NumModulation(c.w, ModBias(c.txt_shift, c.txt_gate1, c.txt_gate2), c.vec)
    IN  [img |-> NumLinear(c.w, 0, NumModulate(c.img, img_mod[0], img_mod[1])),
         txt |-> NumLinear(c.w, 0, NumModulate(c.txt, txt_mod[0], txt_mod[1]))]

\* an attention output row is a convex combination of the value rows
AttentionOutputs(c) ==
    LET v == NumValues(c)
    IN  Min(v.img, v.txt)..(IF v.img > v.txt THEN v.img ELSE v.txt)

\* the returned (img, txt), given the attention output of the image and of
\* the text positions
NumDoubleForward(c, img_attn, txt_attn) ==
    LET img_mod == NumModulation(c.w, ModBias(c.img_shift, c.img_gate1, c.img_gate2), c.vec)
        txt_mod == NumModulation(c.w, ModBias(c.txt_shift, c.txt_gate1, c.txt_gate2), c.vec)
        img1 == NumAddCMul(c.img, NumLinear(c.w, c.b, img_attn), img_mod[2])
        mod_img == NumMlp(c.w, c.b, NumModulate(img1, img_mod[3], img_mod[4]))
        img2 == NumAddCMul(img1, mod_img, img_mod[5])
        txt1 == NumAddCMul(c.txt, NumLinear(c.w, c.b, txt_attn), txt_mod[2])
        txt2 == NumAddCMul(txt1, NumMlp(c.w, c.b, NumModulate(txt1, txt_mod[3], txt_mod[4])),
                           txt_mod[5])
    IN  [raised |-> "", img |-> img2, txt |-> txt2]

\* the whole call: the q / k / v attributes are looked up first, and split_mlp
\* splits the image rows
ZeroForward ==
    /\ pc = "call"
    /\ inp.fn = "zero"
    /\ IF ~({"img_attn.q", "img_attn.k", "img_attn.v",
             "txt_attn.q", "txt_attn.k", "txt_attn.v"} \subseteq attrs)
       THEN /\ ret' = [raised |-> "AttributeError", img |-> 0, txt |-> 0]
            /\ pc' = "raised"
       ELSE IF inp.S \div split_mlp_default_divide = 0
       THEN /\ ret' = [raised |-> "RuntimeError", img |-> 0, txt |-> 0]
            /\ pc' = "raised"
       ELSE /\ \E img_attn \in AttentionOutputs(inp), txt_attn \in AttentionOutputs(inp) :
                  ret' = NumDoubleForward(inp, img_attn, txt_attn)
            /\ pc' = "returned"
    /\ UNCHANGED <<inp, attrs, heap, bind, inplace, chunks, ci>>

\* img = zeros[1, 8, C], txt = zeros[1, 4, C], vec = zeros[1, C]; the parameters
\* are whatever construction (or a checkpoint) left in them
ZeroInit ==
    /\ pc = "call"
    /\ inp \in [fn : {"zero"}, B : {1}, T : {4}, S : {8}, img : {0}, txt : {0}, vec : {0},
                img_shift : 0..MaxBias, txt_shift : 0..MaxBias,
                img_gate1 : 0..MaxGate, img_gate2 : 0..MaxGate,
                txt_gate1 : 0..MaxGate, txt_gate2 : 0..MaxGate,
                w : 1..MaxW, b : 0..MaxBias]
    /\ attrs = ConstructedAttrs("double")
    /\ heap = NoHeap
    /\ bind = <<>>
    /\ inplace = {}
    /\ chunks = <<>>
    /\ ci = 0
    /\ ret = <<>>

ZeroNext == SplitLinear \/ ZeroForward

SpecZero == ZeroInit /\ [][ZeroNext]_vars

----------------------------------------------------------------------------
(* Claims about timestep_embedding (checked under SpecTime) *)

LastColumn(emb, dim) == [n \in 1..Len(emb) |-> emb[n][dim]]

----------------------------------------------------------------------------
(* Claims about QKNorm (checked under SpecQK) *)

\* C3: a call of QKNorm.forward that passes both a query and a key tensor, or
\* None for both, raises and returns no normalized tensor.
C3_ContractViolationRaises ==
    (pc # "call" /\ ret.q.isNone = ret.k.isNone) => pc = "raised"

\* C7: the query result is the query_norm RMSNorm of q cast to v, whatever key
\* tensor the caller holds, and the key result is the key_norm RMSNorm of k
\* cast to v, whatever query tensor the caller holds.
C7_PathsIndependent ==
    pc # "call" =>
        /\ (~ret.q.isNone /\ ret.k.isNone) =>
                ret.out = To(RMSNorm_forward("query_norm", inp.q), inp.v)
        /\ (ret.q.isNone /\ ~ret.k.isNone) =>
                ret.out = To(RMSNorm_forward("key_norm", inp.k), inp.v)

\* a query normalization returned while the caller holds a different key tensor
C7_Witness ==
    /\ pc = "returned"
    /\ ~ret.q.isNone /\ ret.k.isNone
    /\ inp.k # inp.q
    /\ inp.v.dtype = "bf16"
    /\ ret.out.dtype = "bf16"

----------------------------------------------------------------------------
(* Claims about split_mlp (checked under SpecSplit) *)

\* C1: for every [B, S, C] input and every divide, split_mlp completes and
\* returns a [B, S, C] tensor whose every row is the 3-stage MLP of the same
\* input row, applied exactly once.
C1_ChunkedEqualsUnchunked ==
    pc \in {"returned", "raised"} =>
        /\ pc = "returned"
        /\ ret.shapes = <<<<inp.B, inp.S>>>>
        /\ heap["x"].rows = RowsOf(inp.B, inp.S, LAMBDA b, s : Mlp3("mlp", InRow("x", b, s)))

----------------------------------------------------------------------------
(* Claims about the block forward calls (checked under Spec) *)

\* the input row a term started as: the row operand is the last component
RECURSIVE Origin(_)
Origin(t) == IF t[1] = "in" THEN t ELSE Origin(t[Len(t)])

\* the <<batch, position>> of every attention output row a term was computed from
RECURSIVE AttnUses(_)
AttnUses(t) ==
    CASE t[1] = "in" -> {}
      [] t[1] = "attn" -> {<<t[2], t[3]>>} \cup AttnUses(t[4])
      [] t[1] \in {"ln", "gelu", "silu", "1+"} -> AttnUses(t[2])
      [] t[1] \in {"lin", "rms", "to", "chunk"} -> AttnUses(t[3])
      [] t[1] \in {"mul", "add", "cat"} -> AttnUses(t[2]) \cup AttnUses(t[3])
      [] t[1] = "addcmul" -> AttnUses(t[2]) \cup AttnUses(t[3]) \cup AttnUses(t[4])

SplitInstalled == attrs \cap DOMAIN split_linear_modules_map = {}

\* C2: in DoubleStreamBlock.forward the joint q, k and v each hold the T text
\* positions first and the I image positions after them, in the same order,
\* and the attention result is split at T: only positions [0, T) are added
\* into the text stream and only positions [T, T+I) into the image stream.
C2_TextThenImage ==
    inp.fn = "double" =>
        /\ "q" \in DOMAIN heap =>
              \A st \in {"q", "k", "v"} :
                 /\ Shape(heap, st) = <<inp.B, inp.T + inp.S>>
                 /\ \A b \in 0..(inp.B - 1), p \in 0..(inp.T + inp.S - 1) :
                       Origin(heap[st].rows[b * (inp.T + inp.S) + p + 1])
                          = IF p < inp.T THEN InRow("txt", b, p)
                                         ELSE InRow("img", b, p - inp.T)
        /\ \A b \in 0..(inp.B - 1) :
              /\ \A j \in 0..(inp.T - 1) :
                    LET uses == AttnUses(heap["txt"].rows[b * inp.T + j + 1])
                    IN  /\ uses \subseteq {<<b, j>>}
                        /\ pc = "returned" => uses = {<<b, j>>}
              /\ \A i \in 0..(inp.S - 1) :
                    LET uses == AttnUses(heap["img"].rows[b * inp.S + i + 1])
                    IN  /\ uses \subseteq {<<b, inp.T + i>>}
                        /\ pc \in {"d_img_mlp_prep", "returned"} => uses = {<<b, inp.T + i>>}

\* a forward call of two batches, two text and nine image positions returned
C2_Witness ==
    /\ inp.fn = "double" /\ pc = "returned"
    /\ inp.B = 2 /\ inp.T = 2 /\ inp.S = 9
    /\ AttnUses(heap["img"].rows[inp.S + 1]) = {<<1, inp.T>>}

\* C4 as stated: every tensor mutated in place during a forward call of
\* DoubleStreamBlock or SingleStreamBlock was created inside that call; no
\* tensor passed in by the caller is written in place.
C4_OnlyOwnTensorsMutated ==
    inp.fn \in {"double", "single"} => \A w \in inplace : w[3] = "local"

\* C4 as amended: mul_, add_ and slice assignment write only tensors created
\* inside the call; the caller's tensors written in place are the residual
\* streams img, txt and x, by addcmul_ only; vec, pe and the parameters are
\* never written in place.
C4_OnlyResidualStreamsOfCaller ==
    inp.fn \in {"double", "single"} =>
        \A w \in inplace :
            \/ w[3] = "local"
            \/ /\ w[1] = "addcmul_"
               /\ w[3] = "caller"
               /\ w[2] \in {"img", "txt", "x"}

\* a DoubleStreamBlock call returned, having written locals and both streams
C4_Witness ==
    /\ inp.fn = "double" /\ pc = "returned"
    /\ <<"mul_", "img_modulated", "local">> \in inplace
    /\ <<"setitem", "mod_img", "local">> \in inplace
    /\ <<"addcmul_", "img", "caller">> \in inplace
    /\ <<"addcmul_", "txt", "caller">> \in inplace

\* C5: a forward call of DoubleStreamBlock, SingleStreamBlock or LastLayer
\* leaves vec, pe and the module parameters as they were before the call.
C5_VecPeParametersUnchanged ==
    \A s \in {"vec", "pe", "parameters"} :
        /\ s \in DOMAIN heap
        /\ heap[s] = InitialHeap(inp)[s]

\* a SingleStreamBlock call returned after in-place writes that read the
\* modulation views
C5_Witness ==
    /\ inp.fn = "single" /\ pc = "returned" /\ inp.B = 2
    /\ <<"mul_", "x_mod", "local">> \in inplace
    /\ <<"addcmul_", "x", "caller">> \in inplace
    /\ heap["x"].rows # InitialHeap(inp)["x"].rows

\* C8: DoubleStreamBlock.forward returns img and txt of the shapes passed in
\* and SingleStreamBlock.forward returns x of the shape passed in, for every
\* batch size and sequence length, also lengths below the chunk counts.
C8_ShapesPreserved ==
    (inp.fn \in {"double", "single"} /\ SplitInstalled /\ pc \in {"returned", "raised"}) =>
        /\ pc = "returned"
        /\ ret.shapes = IF inp.fn = "double"
                        THEN <<<<inp.B, inp.S>>, <<inp.B, inp.T>>>>
                        ELSE <<<<inp.B, inp.S>>>>

\* the modulated input row (b, s) of SingleStreamBlock.forward
SingleModulated(b, s) ==
    LET mod == Linear("modulation.lin", SiLU(InRow("vec", b, 0)))
    IN  AddRow(ChunkOf(0, mod), MulRow(OnePlus(ChunkOf(1, mod)), LayerNorm(InRow("x", b, s))))

\* linear2 of attention row (b, s) concatenated with the activated MLP
\* expansion of the modulated row (b, s), the attention row computed from the
\* query projection of that modulated row
SingleCombined(b, s) ==
    LET q == <<"to", ActDType, <<"rms", "query_norm", Linear("linear1_attn_q", SingleModulated(b, s))>>>>
    IN  Linear("linear2", CatCols(AttnRow(b, s, q), GELU(Linear("linear1_mlp", SingleModulated(b, s)))))

\* C10: in SingleStreamBlock.forward, for every B and S, the chunk loop pairs
\* row r of the modulated input with row r of the attention output, writes
\* every row exactly once with linear2 of the pair, and reads a row's
\* modulated value only before the row is overwritten.
C10_AlignedChunksWriteOnce ==
    (inp.fn = "single" /\ SplitInstalled) =>
        /\ pc # "raised"
        /\ pc = "s_loop" =>
              /\ \A i \in 1..Len(chunks) : chunks[i][1] = chunks[i][2]
              /\ \A r \in 1..(inp.B * inp.S) :
                    heap[bind.x_mod].rows[r] =
                       IF ci > Len(chunks) \/ r < chunks[ci][1][1]
                       THEN SingleCombined((r - 1) \div inp.S, (r - 1) % inp.S)
                       ELSE SingleModulated((r - 1) \div inp.S, (r - 1) % inp.S)

----------------------------------------------------------------------------
(* Claims about the zero-input scenario (checked under SpecZero) *)

GatesZero ==
    /\ inp.img_gate1 = 0 /\ inp.img_gate2 = 0
    /\ inp.txt_gate1 = 0 /\ inp.txt_gate2 = 0

\* C6 as stated: a DoubleStreamBlock as constructed, called with zero img, txt
\* and vec and an identity pe, completes and returns an all-zero (img, txt).
C6_ZeroInZeroOut ==
    pc \in {"returned", "raised"} =>
        /\ pc = "returned"
        /\ ret.img = 0 /\ ret.txt = 0

\* C6 as amended: as constructed the call raises (SelfAttention has no q, k, v
\* attributes); with the sub-projections of the split map installed it
\* completes, and it returns an all-zero (img, txt) when the gate biases of
\* both modulation layers are zero.
C6_ZeroOutWhenGatesZero ==
    pc \in {"returned", "raised"} =>
        /\ pc = "returned" <=> SplitInstalled
        /\ pc = "raised" => ret.raised = "AttributeError"
        /\ (pc = "returned" /\ GatesZero) => (ret.img = 0 /\ ret.txt = 0)

\* the call returned zeros with zero gates although the shifts and the biases
\* of the projections and of the MLP are not zero
C6_Witness ==
    /\ pc = "returned" /\ GatesZero
    /\ inp.b = 1 /\ inp.img_shift = 1 /\ inp.txt_shift = 1
    /\ ret.img = 0 /\ ret.txt = 0

=============================================================================
